---- MODULE Spec2Model ----
(***************************************************************************)
(* A model of dia-core: the Response builder, the Cors/Auth/Logging        *)
(* middlewares and the default hooks, BasicController route registration,  *)
(* Application assembly and request dispatch, and the C ABI boundary       *)
(* (opaque handles, dia_init).                                             *)
(*                                                                         *)
(* Strings the code takes apart or puts together (paths, header values     *)
(* joined or prefix-matched) are sequences of one-character strings;       *)
(* strings the code only stores and compares are TLA+ strings.             *)
(***************************************************************************)
EXTENDS Integers, Sequences, FiniteSets, TLC

VARIABLES
    resp,        \* the Response under construction (response.rs)
    calls,       \* history: the builder calls applied to resp, in order
    cors,        \* a CorsMiddleware (middleware.rs)
    corsRun,     \* the last CorsMiddleware::after_request call: request, input, output
    auth,        \* an AuthMiddleware (middleware.rs)
    authRun,     \* the last AuthMiddleware::before_request call: request, output
    logging,     \* a LoggingMiddleware (middleware.rs)
    hookRun,     \* the last pass-through hook call: middleware, hook, inputs, outputs
    controller,  \* a BasicController (controller.rs)
    config,      \* the ServiceConfig register_routes filled, and the warnings logged
    app,         \* an Application (application.rs)
    server,      \* what Application::run made of it: phase, bind address, route table
    exchange,    \* the last request the server handled: what ran, what was sent
    heap,        \* the objects handed out across the C boundary, by handle (ffi.rs)
    ffi,         \* the last boundary call: function, arguments, return code
    logger       \* whether the process has a global logger installed (lib.rs)

respVars == <<resp, calls>>
corsVars == <<cors, corsRun>>
authVars == <<auth, authRun>>
hookVars == <<logging, hookRun>>
ctrlVars == <<controller, config>>
appVars == <<app, server, exchange>>
ffiVars == <<heap, ffi, logger>>
vars == <<resp, calls, cors, corsRun, auth, authRun, logging, hookRun, controller, config,
          app, server, exchange, heap, ffi, logger>>

(***************************************************************************)
(* Maps (HashMap<String, String>)                                          *)
(***************************************************************************)
EmptyMap == [k \in {} |-> ""]

\* HashMap::insert: last write wins for the key, other keys untouched.
MapInsert(m, k, v) == [x \in (DOMAIN m) \cup {k} |-> IF x = k THEN v ELSE m[x]]

\* HashMap::extend: every entry of `other` is inserted.
MapExtend(m, other) ==
    [x \in (DOMAIN m) \cup (DOMAIN other) |-> IF x \in DOMAIN other THEN other[x] ELSE m[x]]

(***************************************************************************)
(* response.rs                                                             *)
(***************************************************************************)
BodyEmpty == [tag |-> "Empty", text |-> "", data |-> <<>>]
BodyText(s) == [tag |-> "Text", text |-> s, data |-> <<>>]
BodyJson(v) == [tag |-> "Json", text |-> v, data |-> <<>>]
BodyBinary(d) == [tag |-> "Binary", text |-> "", data |-> d]

CtText == "text/plain; charset=utf-8"
CtHtml == "text/html; charset=utf-8"
CtJson == "application/json"
CtBinary == "application/octet-stream"

\* Response::new
ResponseNew == [status |-> 200, headers |-> EmptyMap, body |-> BodyEmpty]

\* StatusCode::from_u16 accepts exactly 100..999.
StatusValid(n) == n >= 100 /\ n < 1000

\* A status that applies whatever number it is given.
RespStatus_Unchecked(r, n) == [r EXCEPT !.status = n]

\* Response::status
RespStatus(r, n) == IF StatusValid(n) THEN [r EXCEPT !.status = n] ELSE r

\* Response::header
RespHeader(r, k, v) == [r EXCEPT !.headers = MapInsert(r.headers, k, v)]

\* A headers that keeps the entries the Response already has.
RespHeaders_KeepsExisting(r, m) == [r EXCEPT !.headers = MapExtend(m, r.headers)]

\* Response::headers
RespHeaders(r, m) == [r EXCEPT !.headers = MapExtend(r.headers, m)]

\* Response::text
RespText(r, s) ==
    [r EXCEPT !.body = BodyText(s),
              !.headers = MapInsert(r.headers, "content-type", CtText)]

\* serde_json::to_value on the values the model passes to json(): a unit
\* value, a message object, and a map with non-string keys, which serde_json
\* refuses ("key must be a string").
JsonInputs == {"unit", "message", "int_keyed_map"}
ToValue(data) ==
    CASE data = "unit" -> [ok |-> TRUE, value |-> "null"]
      [] data = "message" -> [ok |-> TRUE, value |-> "{\"message\":\"hi\"}"]
      [] OTHER -> [ok |-> FALSE, value |-> ""]

\* A json whose fallback keeps the status it found.
RespJson_KeepsStatus(r, data) ==
    LET res == ToValue(data) IN
    IF res.ok
    THEN [r EXCEPT !.body = BodyJson(res.value),
                   !.headers = MapInsert(r.headers, "content-type", CtJson)]
    ELSE [r EXCEPT !.body = BodyText("Failed to serialize JSON"),
                   !.headers = MapInsert(r.headers, "content-type", CtText)]

\* Response::json
RespJson(r, data) ==
    LET res == ToValue(data) IN
    IF res.ok
    THEN [r EXCEPT !.body = BodyJson(res.value),
                   !.headers = MapInsert(r.headers, "content-type", CtJson)]
    ELSE [r EXCEPT !.status = 500,
                   !.body = BodyText("Failed to serialize JSON"),
                   !.headers = MapInsert(r.headers, "content-type", CtText)]

\* An html that sets the body and leaves the content type alone.
RespHtml_NoContentType(r, s) == [r EXCEPT !.body = BodyText(s)]

\* Response::html
RespHtml(r, s) ==
    [r EXCEPT !.body = BodyText(s),
              !.headers = MapInsert(r.headers, "content-type", CtHtml)]

\* Response::binary
RespBinary(r, d) ==
    [r EXCEPT !.body = BodyBinary(d),
              !.headers = MapInsert(r.headers, "content-type", CtBinary)]

\* Response::redirect
RespRedirect(r, url) ==
    [r EXCEPT !.status = 302,
              !.headers = MapInsert(r.headers, "location", url)]

\* Response::unauthorized
RespUnauthorized(msg) == RespText(RespStatus(ResponseNew, 401), msg)

(***************************************************************************)
(* request.rs                                                              *)
(***************************************************************************)
NoneStr == [some |-> FALSE, val |-> <<>>]
SomeStr(s) == [some |-> TRUE, val |-> s]

\* Request::new: method, path and headers are taken from the engine's request
\* (header names arrive lowercased); body and path parameters start empty.
\* The engine's HttpRequest is the request head: the payload the client sent
\* (`payload` in the model) is not part of what Request::new reads.
RequestNew(http) ==
    [method |-> http.method,
     path |-> http.path,
     headers |-> http.headers,
     body |-> NoneStr,
     path_params |-> EmptyMap,
     remote_ip |-> http.peer]

\* Request::set_body
ReqSetBody(req, body) == [req EXCEPT !.body = SomeStr(body)]

\* Request::header: exact lookup of the name.
ReqHeader(req, name) ==
    IF name \in DOMAIN req.headers THEN SomeStr(req.headers[name]) ELSE NoneStr

\* str::starts_with
StartsWith(s, p) == Len(p) <= Len(s) /\ SubSeq(s, 1, Len(p)) = p

\* [String]::join
RECURSIVE Join(_, _)
Join(list, sep) ==
    IF list = <<>> THEN <<>>
    ELSE IF Len(list) = 1 THEN list[1]
    ELSE list[1] \o sep \o Join(Tail(list), sep)

CommaSpace == <<",", " ">>

(***************************************************************************)
(* middleware.rs: CorsMiddleware                                           *)
(***************************************************************************)
StrStar == <<"*">>
StrGET == <<"G", "E", "T">>
StrPOST == <<"P", "O", "S", "T">>
StrPUT == <<"P", "U", "T">>
StrDELETE == <<"D", "E", "L", "E", "T", "E">>
StrTrue == <<"t", "r", "u", "e">>

\* CorsMiddleware::new
CorsNew ==
    [allowed_origins |-> <<StrStar>>,
     allowed_methods |-> <<StrGET, StrPOST, StrPUT, StrDELETE>>,
     allowed_headers |-> <<StrStar>>,
     allow_credentials |-> FALSE]

\* CorsMiddleware::allowed_origins / allowed_methods / allowed_headers /
\* allow_credentials
CorsAllowedOrigins(mw, origins) == [mw EXCEPT !.allowed_origins = origins]
CorsAllowedMethods(mw, methods) == [mw EXCEPT !.allowed_methods = methods]
CorsAllowedHeaders(mw, headers) == [mw EXCEPT !.allowed_headers = headers]
CorsAllowCredentials(mw, allow) == [mw EXCEPT !.allow_credentials = allow]

\* An after_request that joins the lists with "," and no space.
CorsAfterRequest_CommaOnly(mw, req, r) ==
    LET r3 == RespHeader(
                RespHeader(
                  RespHeader(r, "Access-Control-Allow-Origin",
                             Join(mw.allowed_origins, <<",">>)),
                  "Access-Control-Allow-Methods", Join(mw.allowed_methods, <<",">>)),
                "Access-Control-Allow-Headers", Join(mw.allowed_headers, <<",">>))
    IN IF mw.allow_credentials
       THEN RespHeader(r3, "Access-Control-Allow-Credentials", StrTrue)
       ELSE r3

\* CorsMiddleware::after_request (the request is not read)
CorsAfterRequest(mw, req, r) ==
    LET r3 == RespHeader(
                RespHeader(
                  RespHeader(r, "Access-Control-Allow-Origin",
                             Join(mw.allowed_origins, CommaSpace)),
                  "Access-Control-Allow-Methods", Join(mw.allowed_methods, CommaSpace)),
                "Access-Control-Allow-Headers", Join(mw.allowed_headers, CommaSpace))
    IN IF mw.allow_credentials
       THEN RespHeader(r3, "Access-Control-Allow-Credentials", StrTrue)
       ELSE r3

\* Middleware::before_request, the default CorsMiddleware keeps
NoResponse == [some |-> FALSE, resp |-> ResponseNew]
SomeResponse(r) == [some |-> TRUE, resp |-> r]
DefaultBeforeRequest(req) == NoResponse

\* Middleware::after_request, the default
DefaultAfterRequest(req, r) == r

\* What a hook leaves behind: the Request as it is after the call (hooks get
\* `&mut Request` or `&Request`), the Option<Response> of before_request or
\* the Response of after_request, and the lines it logged.
HookResult(req, short, r, log) == [req |-> req, short |-> short, resp |-> r, log |-> log]

\* LoggingMiddleware::new and its builders
LoggingNew == [log_bodies |-> FALSE, log_responses |-> FALSE]
LoggingLogBodies(mw, enable) == [mw EXCEPT !.log_bodies = enable]
LoggingLogResponses(mw, enable) == [mw EXCEPT !.log_responses = enable]

\* LoggingMiddleware::before_request: method, path, remote IP and body are
\* copied out of the Request and logged; the answer is None.
LoggingBeforeRequest(mw, req) ==
    LET line == [level |-> "info", method |-> req.method, path |-> req.path,
                 text |-> IF req.remote_ip.some THEN "ip" ELSE "unknown"]
        body == [level |-> "debug", method |-> req.method, path |-> req.path,
                 text |-> "Request body"]
    IN HookResult(req, NoResponse, ResponseNew,
                  IF mw.log_bodies /\ req.body.some THEN <<line, body>> ELSE <<line>>)

\* A LoggingMiddleware::after_request that stamps the Response with the status
\* it logs.
LoggingAfterRequest_Stamps200(mw, req, r) ==
    HookResult(req, NoResponse, [r EXCEPT !.status = 200], <<>>)

\* LoggingMiddleware::after_request: logs the method and path with the fixed
\* status text "200", and gives the Response back.
LoggingAfterRequest(mw, req, r) ==
    LET line == [level |-> "info", method |-> req.method, path |-> req.path,
                 text |-> "Status: 200"]
        sent == [level |-> "debug", method |-> req.method, path |-> req.path,
                 text |-> "Response sent"]
    IN HookResult(req, NoResponse, r,
                  IF mw.log_responses THEN <<line, sent>> ELSE <<line>>)

(***************************************************************************)
(* middleware.rs: AuthMiddleware                                           *)
(***************************************************************************)
StrSlash == <<"/">>
StrHealth == <<"/", "h", "e", "a", "l", "t", "h">>
StrBearerSp == <<"B", "e", "a", "r", "e", "r", " ">>

\* AuthMiddleware::new
AuthNew(secret) == [public_paths |-> <<StrHealth, StrSlash>>, secret_key |-> secret]

\* AuthMiddleware::public_paths
AuthPublicPaths(mw, paths) == [mw EXCEPT !.public_paths = paths]

\* An is_public_path that wants the path to equal a listed one.
IsPublicPath_Exact(mw, path) ==
    \E i \in 1..Len(mw.public_paths) : path = mw.public_paths[i]

\* AuthMiddleware::is_public_path
IsPublicPath(mw, path) ==
    \E i \in 1..Len(mw.public_paths) : StartsWith(path, mw.public_paths[i])

\* A before_request that lets any authorization header through.
AuthBeforeRequest_AnyHeader(mw, req) ==
    LET is_public == IsPublicPath(mw, req.path)
        auth_header == ReqHeader(req, "authorization")
    IN IF is_public THEN NoResponse
       ELSE IF auth_header.some THEN NoResponse
       ELSE SomeResponse(RespUnauthorized("Authentication required"))

\* AuthMiddleware::before_request
AuthBeforeRequest(mw, req) ==
    LET is_public == IsPublicPath(mw, req.path)
        auth_header == ReqHeader(req, "authorization")
    IN IF is_public THEN NoResponse
       ELSE IF auth_header.some /\ StartsWith(auth_header.val, StrBearerSp) THEN NoResponse
       ELSE SomeResponse(RespUnauthorized("Authentication required"))

(***************************************************************************)
(* controller.rs                                                           *)
(***************************************************************************)
\* Route::get / post / put / delete / patch
RouteGet(path, handler) == [method |-> "GET", path |-> path, handler |-> handler]
RoutePost(path, handler) == [method |-> "POST", path |-> path, handler |-> handler]
RoutePut(path, handler) == [method |-> "PUT", path |-> path, handler |-> handler]
RouteDelete(path, handler) == [method |-> "DELETE", path |-> path, handler |-> handler]
RoutePatch(path, handler) == [method |-> "PATCH", path |-> path, handler |-> handler]

\* BasicController::new
ControllerNew == [routes |-> <<>>, base_path |-> NoneStr]

\* BasicController::base_path (the builder)
CtrlBasePath(c, path) == [c EXCEPT !.base_path = SomeStr(path)]

\* BasicController::route
CtrlRoute(c, route) == [c EXCEPT !.routes = Append(c.routes, route)]

\* BasicController::get / post / put / delete / patch
CtrlGet(c, path, handler) == CtrlRoute(c, RouteGet(path, handler))
CtrlPost(c, path, handler) == CtrlRoute(c, RoutePost(path, handler))
CtrlPut(c, path, handler) == CtrlRoute(c, RoutePut(path, handler))
CtrlDelete(c, path, handler) == CtrlRoute(c, RouteDelete(path, handler))
CtrlPatch(c, path, handler) == CtrlRoute(c, RoutePatch(path, handler))

\* web::ServiceConfig as register_routes sees it: the routes added so far, in
\* order, and beside it the warnings the loop logged.
ConfigNew == [done |-> FALSE, routes |-> <<>>, warnings |-> <<>>]

\* ServiceConfig::route(path, web::<method>().to(handler))
ConfigRoute(cfg, path, guard, handler) ==
    [cfg EXCEPT !.routes = Append(cfg.routes,
                                  [guard |-> guard, path |-> path, handler |-> handler])]

\* The full path of a route that ignores the base path.
FullPath_NoBase(c, route) == route.path

\* format!("{}{}", base, route.path), or route.path when no base path is set
FullPath(c, route) ==
    IF c.base_path.some THEN c.base_path.val \o route.path ELSE route.path

\* A match on route.method that takes a lowercase "get" for GET.
RegisterRoute_IgnoresCase(c, route, cfg) ==
    LET full_path == IF c.base_path.some THEN c.base_path.val \o route.path
                     ELSE route.path IN
    CASE route.method \in {"GET", "get"} -> ConfigRoute(cfg, full_path, "GET", route.handler)
      [] route.method = "POST" -> ConfigRoute(cfg, full_path, "POST", route.handler)
      [] route.method = "PUT" -> ConfigRoute(cfg, full_path, "PUT", route.handler)
      [] route.method = "DELETE" -> ConfigRoute(cfg, full_path, "DELETE", route.handler)
      [] route.method = "PATCH" -> ConfigRoute(cfg, full_path, "PATCH", route.handler)
      [] OTHER -> [cfg EXCEPT !.warnings = Append(cfg.warnings, route.method)]

\* One turn of the loop of register_routes: the match on route.method.
RegisterRoute(c, route, cfg) ==
    LET full_path == FullPath(c, route) IN
    CASE route.method = "GET" -> ConfigRoute(cfg, full_path, "GET", route.handler)
      [] route.method = "POST" -> ConfigRoute(cfg, full_path, "POST", route.handler)
      [] route.method = "PUT" -> ConfigRoute(cfg, full_path, "PUT", route.handler)
      [] route.method = "DELETE" -> ConfigRoute(cfg, full_path, "DELETE", route.handler)
      [] route.method = "PATCH" -> ConfigRoute(cfg, full_path, "PATCH", route.handler)
      [] OTHER -> [cfg EXCEPT !.warnings = Append(cfg.warnings, route.method)]

\* BasicController::register_routes: the loop over self.routes, from route i on.
RECURSIVE RegisterFrom(_, _, _)
RegisterFrom(c, i, cfg) ==
    IF i > Len(c.routes) THEN cfg
    ELSE RegisterFrom(c, i + 1, RegisterRoute(c, c.routes[i], cfg))

RegisterRoutes(c, cfg) == RegisterFrom(c, 1, cfg)

(***************************************************************************)
(* application.rs                                                          *)
(***************************************************************************)
\* Application::new
ApplicationNew ==
    [host |-> "127.0.0.1", port |-> 8080, controllers |-> <<>>, middlewares |-> <<>>,
     state |-> EmptyMap]

\* Application::host / port / controller / middleware / state
AppHost(a, host) == [a EXCEPT !.host = host]
AppPort(a, port) == [a EXCEPT !.port = port]
\* A controller call that puts the new controller first.
AppController_Prepends(a, c) == [a EXCEPT !.controllers = <<c>> \o a.controllers]

\* Application::controller
AppController(a, c) == [a EXCEPT !.controllers = Append(a.controllers, c)]
AppMiddleware(a, m) == [a EXCEPT !.middlewares = Append(a.middlewares, m)]
AppState(a, k, v) == [a EXCEPT !.state = MapInsert(a.state, k, v)]

\* The App factory of run: every controller's register_routes, in the order
\* of self.controllers, from controller i on. Nothing is done with
\* self.middlewares ("TODO: Apply custom middlewares here").
RECURSIVE ConfigureFrom(_, _, _)
ConfigureFrom(controllers, i, cfg) ==
    IF i > Len(controllers) THEN cfg
    ELSE ConfigureFrom(controllers, i + 1, RegisterRoutes(controllers[i], cfg))

ServerNew ==
    [phase |-> "building", bind |-> [host |-> "", port |-> 0], routes |-> <<>>,
     state |-> EmptyMap]

\* Application::run up to the server serving: format the bind address, move
\* state and controllers into the factory, bind. A bind error is returned by
\* `?` before any worker runs the factory.
AppRun(a, bind_ok) ==
    IF bind_ok
    THEN [phase |-> "running",
          bind |-> [host |-> a.host, port |-> a.port],
          routes |-> ConfigureFrom(a.controllers, 1, ConfigNew).routes,
          state |-> a.state]
    ELSE [phase |-> "failed",
          bind |-> [host |-> a.host, port |-> a.port],
          routes |-> <<>>,
          state |-> EmptyMap]

\* The engine's routing: the first registered route whose method guard and
\* path both match the request, 0 when there is none.
MatchRoute(routes, http) ==
    LET S == {i \in 1..Len(routes) :
                 routes[i].guard = http.method /\ routes[i].path = http.path}
    IN IF S = {} THEN 0 ELSE CHOOSE i \in S : \A j \in S : i <= j

\* The handlers of examples/simple_server.rs, and one that returns the
\* Response it was handed.
HandlerRun(handler, req, template) ==
    CASE handler = "hello" -> RespText(ResponseNew, "Hello from dia!")
      [] handler = "users" -> RespJson(ResponseNew, "message")
      [] OTHER -> template

\* Response::into_http_response
IntoHttpResponse(r) ==
    [status |-> r.status,
     headers |-> IF r.body.tag = "Json" /\ "content-type" \notin DOMAIN r.headers
                 THEN MapInsert(r.headers, "content-type", CtJson)
                 ELSE r.headers,
     payload |-> r.body]

\* The engine's answer when no route matches.
EngineNotFound == [status |-> 404, headers |-> EmptyMap, payload |-> BodyEmpty]

Event(hook, mw) == [hook |-> hook, mw |-> mw]

\* An actix_handler that runs the after_request hook of a registered
\* CorsMiddleware on the handler's result.
ActixHandler_AppliesCors(route, http) ==
    LET dia_req == RequestNew(http)
        dia_resp == ResponseNew
        result == HandlerRun(route.handler, dia_req, dia_resp)
        has_cors == \E i \in 1..Len(app.middlewares) : app.middlewares[i].kind = "Cors"
    IN [trace |-> IF has_cors THEN <<Event("handler", 0), Event("after", 1)>>
                  ELSE <<Event("handler", 0)>>,
        seen_req |-> dia_req,
        seen_resp |-> dia_resp,
        sent |-> IntoHttpResponse(IF has_cors
                                  THEN CorsAfterRequest(CorsNew, dia_req, result)
                                  ELSE result)]

\* actix_handler, the closure register_routes wraps every handler in: a fresh
\* Request, a fresh Response, the handler, the conversion. `trace` lists the
\* hooks and handlers that ran, in order.
ActixHandler(route, http) ==
    LET dia_req == RequestNew(http)
        dia_resp == ResponseNew
        result == HandlerRun(route.handler, dia_req, dia_resp)
    IN [trace |-> <<Event("handler", 0)>>,
        seen_req |-> dia_req,
        seen_resp |-> dia_resp,
        sent |-> IntoHttpResponse(result)]

ExchangeNew ==
    LET http == [method |-> "GET", path |-> <<"/">>, headers |-> EmptyMap,
                 peer |-> NoneStr, payload |-> NoneStr]
    IN [done |-> FALSE, http |-> http, matched |-> 0, trace |-> <<>>,
        seen_req |-> RequestNew(http), seen_resp |-> ResponseNew,
        sent |-> EngineNotFound]

\* One request through the running server.
Serve(srv, http) ==
    LET i == MatchRoute(srv.routes, http) IN
    IF i = 0
    THEN [ExchangeNew EXCEPT !.done = TRUE, !.http = http]
    ELSE LET h == ActixHandler(srv.routes[i], http) IN
         [done |-> TRUE, http |-> http, matched |-> i, trace |-> h.trace,
          seen_req |-> h.seen_req, seen_resp |-> h.seen_resp, sent |-> h.sent]

(***************************************************************************)
(* ffi.rs and lib.rs: the C boundary                                       *)
(*                                                                         *)
(* A handle is the index of its object in `heap`; Null is the null         *)
(* pointer. An object records whether its Box is still allocated (live)    *)
(* and which boundary functions dropped it, in order. A C string argument  *)
(* is a null pointer or the bytes before the terminating NUL.              *)
(***************************************************************************)
Null == 0

\* Box::into_raw(Box::new(value)) / CString::into_raw: a new live object.
HeapAlloc(hp, kind, value) ==
    Append(hp, [kind |-> kind, value |-> value, live |-> TRUE, released_by |-> <<>>])

\* drop(Box::from_raw(p)) / drop(CString::from_raw(p))
HeapRelease(hp, p, fn) ==
    [hp EXCEPT ![p].live = FALSE, ![p].released_by = Append(@, fn)]

\* What a second drop of the same allocation can do: the call returns with
\* the heap corrupted, or the allocator detects the double free and aborts
\* the process. Either way the behaviour of the process is undefined from
\* there on, and the model follows it no further.
UbOutcomes == {"continues", "aborts"}

\* What a boundary call leaves: the return code, the heap, and "none" or the
\* undefined behaviour it ran into.
Result(ret, hp, ub) == [ret |-> ret, heap |-> hp, ub |-> ub]

\* Box::from_raw(p) followed by the drop of the box, in function fn. On a
\* handle whose object was already dropped this is a double free: undefined
\* behaviour, resolved by `ub`.
DropBox(hp, p, fn, ub, ret) ==
    IF hp[p].live
    THEN Result(ret, HeapRelease(hp, p, fn), "none")
    ELSE Result(ret, HeapRelease(hp, p, fn), ub)

\* CStr::from_ptr(p).to_str(): UTF-8 validation of the bytes, for sequences
\* of one- and two-byte characters (what the model passes).
RECURSIVE Utf8Valid(_)
Utf8Valid(bytes) ==
    IF bytes = <<>> THEN TRUE
    ELSE IF bytes[1] < 128 THEN Utf8Valid(Tail(bytes))
    ELSE IF bytes[1] >= 194 /\ bytes[1] <= 223
         THEN /\ Len(bytes) >= 2
              /\ bytes[2] >= 128 /\ bytes[2] <= 191
              /\ Utf8Valid(Tail(Tail(bytes)))
    ELSE FALSE

\* dia_application_new
FfiApplicationNew(hp) == HeapAlloc(hp, "app", ApplicationNew)

\* dia_application_host: the Application is not touched ("TODO").
FfiApplicationHost(hp, a, host) ==
    IF a = Null \/ host.null THEN Result(-1, hp, "none")
    ELSE IF ~Utf8Valid(host.bytes) THEN Result(-1, hp, "none")
    ELSE Result(0, hp, "none")

\* dia_application_port
FfiApplicationPort(hp, a, port) ==
    IF a = Null THEN Result(-1, hp, "none") ELSE Result(0, hp, "none")

\* A run that gives the Application back to the caller when it fails.
FfiApplicationRun_KeepsOnError(hp, a, outcome, ub) ==
    IF a = Null THEN Result(-1, hp, "none")
    ELSE IF outcome = "stopped" THEN DropBox(hp, a, "dia_application_run", ub, 0)
    ELSE Result(-1, hp, "none")

\* dia_application_run: Box::from_raw takes the Application; it is dropped
\* when the runtime cannot be created, and consumed by Application::run
\* otherwise, whether the bind fails or the server runs until it is stopped.
FfiApplicationRun(hp, a, outcome, ub) ==
    IF a = Null THEN Result(-1, hp, "none")
    ELSE CASE outcome = "runtime_failed" -> DropBox(hp, a, "dia_application_run", ub, -1)
           [] outcome = "bind_failed" -> DropBox(hp, a, "dia_application_run", ub, -1)
           [] OTHER -> DropBox(hp, a, "dia_application_run", ub, 0)

RunOutcomes == {"runtime_failed", "bind_failed", "stopped"}

\* dia_application_free
FfiApplicationFree(hp, a, ub) ==
    IF a # Null THEN DropBox(hp, a, "dia_application_free", ub, 0)
    ELSE Result(0, hp, "none")

\* dia_response_new
FfiResponseNew(hp) == HeapAlloc(hp, "resp", ResponseNew)

\* dia_response_text
FfiResponseText(hp, r, text) ==
    IF r = Null \/ text.null THEN Result(-1, hp, "none")
    ELSE IF ~Utf8Valid(text.bytes) THEN Result(-1, hp, "none")
    ELSE Result(0, hp, "none")

\* dia_response_json
FfiResponseJson(hp, r, json_str) ==
    IF r = Null \/ json_str.null THEN Result(-1, hp, "none")
    ELSE IF ~Utf8Valid(json_str.bytes) THEN Result(-1, hp, "none")
    ELSE Result(0, hp, "none")

\* A dia_response_status that applies the status to the Response.
FfiResponseStatus_Wired(hp, r, status) ==
    IF r = Null THEN Result(-1, hp, "none")
    ELSE Result(0, [hp EXCEPT ![r].value = RespStatus(@, status)], "none")

\* dia_response_status
FfiResponseStatus(hp, r, status) ==
    IF r = Null THEN Result(-1, hp, "none") ELSE Result(0, hp, "none")

\* A free that returns without dropping the Response.
FfiResponseFree_Leaks(hp, r, ub) == Result(0, hp, "none")

\* dia_response_free
FfiResponseFree(hp, r, ub) ==
    IF r # Null THEN DropBox(hp, r, "dia_response_free", ub, 0)
    ELSE Result(0, hp, "none")

\* dia_application_get: the path is checked for null and never decoded.
FfiApplicationGet(hp, a, path) ==
    IF a = Null \/ path.null THEN Result(-1, hp, "none") ELSE Result(0, hp, "none")

\* dia_init: env_logger::init() is try_init().expect(..), which panics when
\* the process already has a global logger; a panic cannot unwind out of an
\* extern "C" function, so the process is aborted. Otherwise the logger is
\* installed and 0 is returned.
FfiInit(installed) ==
    IF installed THEN [ret |-> 0, logger |-> TRUE, aborted |-> TRUE]
    ELSE [ret |-> 0, logger |-> TRUE, aborted |-> FALSE]

\* dia_version
FfiVersion(hp) == HeapAlloc(hp, "str", "0.1.0")

\* dia_free_string
FfiFreeString(hp, p, ub) ==
    IF p # Null THEN DropBox(hp, p, "dia_free_string", ub, 0)
    ELSE Result(0, hp, "none")

(***************************************************************************)
(* Initial state: every object as its constructor leaves it                *)
(***************************************************************************)
\* The engine's request the model starts from: GET / with no headers.
HttpGetRoot ==
    [method |-> "GET", path |-> StrSlash, headers |-> EmptyMap, peer |-> NoneStr,
     payload |-> NoneStr]

InitResp ==
    /\ resp = ResponseNew
    /\ calls = <<>>

InitCors ==
    /\ cors = CorsNew
    /\ corsRun = [ran |-> FALSE, req |-> RequestNew(HttpGetRoot),
                  in |-> ResponseNew, out |-> ResponseNew]

InitAuth ==
    /\ auth = AuthNew("secret")
    /\ authRun = [ran |-> FALSE, req |-> RequestNew(HttpGetRoot),
                  out |-> NoResponse]

InitHooks ==
    /\ logging = LoggingNew
    /\ hookRun = [ran |-> FALSE, mw |-> "none", hook |-> "none",
                  req_in |-> RequestNew(HttpGetRoot), resp_in |-> ResponseNew,
                  out |-> HookResult(RequestNew(HttpGetRoot), NoResponse, ResponseNew, <<>>)]

InitCtrl ==
    /\ controller = ControllerNew
    /\ config = ConfigNew

InitApp ==
    /\ app = ApplicationNew
    /\ server = ServerNew
    /\ exchange = ExchangeNew

NoCStr == [null |-> TRUE, bytes |-> <<>>]

InitFfi ==
    /\ heap = <<>>
    /\ ffi = [fn |-> "none", h |-> Null, arg |-> NoCStr, outcome |-> "none", ret |-> 0,
              ub |-> "none", was_live |-> FALSE, aborted |-> FALSE]
    /\ logger = FALSE

Init ==
    /\ InitResp
    /\ InitCors
    /\ InitAuth
    /\ InitHooks
    /\ InitCtrl
    /\ InitApp
    /\ InitFfi

\* All sequences over S of length at most n.
SeqsUpTo(S, n) == UNION {[1..k -> S] : k \in 0..n}

(***************************************************************************)
(* SpecResp: any sequence of builder calls on one Response                 *)
(***************************************************************************)
MaxCalls == 3

StatusInputs == {99, 100, 404, 999, 1000}
HeaderKeys == {"content-type", "Content-Type", "x-a"}
HeaderVals == {"v1", "text/css"}
HeaderMaps ==
    { EmptyMap,
      MapInsert(EmptyMap, "content-type", "v1"),
      MapInsert(EmptyMap, "x-a", "v2"),
      MapInsert(MapInsert(EmptyMap, "x-a", "v1"), "content-type", "text/css") }
TextInputs == {"hi"}
BinaryInputs == { <<>>, <<1>> }

Call(op, key, val, map, num, data) ==
    [op |-> op, key |-> key, val |-> val, map |-> map, num |-> num, data |-> data]

RespFrame == UNCHANGED <<corsVars, authVars, ctrlVars, appVars, ffiVars, hookVars>>

DoStatus ==
    \E n \in StatusInputs :
        /\ Len(calls) < MaxCalls
        /\ resp' = RespStatus(resp, n)
        /\ calls' = Append(calls, Call("status", "", "", EmptyMap, n, <<>>))
        /\ RespFrame

DoHeader ==
    \E k \in HeaderKeys, v \in HeaderVals :
        /\ Len(calls) < MaxCalls
        /\ resp' = RespHeader(resp, k, v)
        /\ calls' = Append(calls, Call("header", k, v, EmptyMap, 0, <<>>))
        /\ RespFrame

DoHeaders ==
    \E m \in HeaderMaps :
        /\ Len(calls) < MaxCalls
        /\ resp' = RespHeaders(resp, m)
        /\ calls' = Append(calls, Call("headers", "", "", m, 0, <<>>))
        /\ RespFrame

DoText ==
    \E s \in TextInputs :
        /\ Len(calls) < MaxCalls
        /\ resp' = RespText(resp, s)
        /\ calls' = Append(calls, Call("text", "", s, EmptyMap, 0, <<>>))
        /\ RespFrame

DoJson ==
    \E d \in JsonInputs :
        /\ Len(calls) < MaxCalls
        /\ resp' = RespJson(resp, d)
        /\ calls' = Append(calls, Call("json", "", d, EmptyMap, 0, <<>>))
        /\ RespFrame

DoHtml ==
    \E s \in TextInputs :
        /\ Len(calls) < MaxCalls
        /\ resp' = RespHtml(resp, s)
        /\ calls' = Append(calls, Call("html", "", s, EmptyMap, 0, <<>>))
        /\ RespFrame

DoBinary ==
    \E d \in BinaryInputs :
        /\ Len(calls) < MaxCalls
        /\ resp' = RespBinary(resp, d)
        /\ calls' = Append(calls, Call("binary", "", "", EmptyMap, 0, d))
        /\ RespFrame

DoRedirect ==
    /\ Len(calls) < MaxCalls
    /\ resp' = RespRedirect(resp, "/next")
    /\ calls' = Append(calls, Call("redirect", "", "/next", EmptyMap, 0, <<>>))
    /\ RespFrame

NextResp ==
    \/ DoStatus
    \/ DoHeader
    \/ DoHeaders
    \/ DoText
    \/ DoJson
    \/ DoHtml
    \/ DoBinary
    \/ DoRedirect

SpecResp == Init /\ [][NextResp]_vars

(***************************************************************************)
(* SpecCors: a CorsMiddleware is configured by its builder calls; once      *)
(* built it is only used through &self, and after_request is applied to    *)
(* Responses a handler or an earlier middleware produced                   *)
(***************************************************************************)
MaxList == 2

StrA == <<"a">>
StrOld == <<"o", "l", "d">>
OriginAtoms == {StrStar, StrA}
MethodAtoms == {StrGET, StrPOST}
HeaderAtoms == {StrStar}

ACAO == "Access-Control-Allow-Origin"
ACAM == "Access-Control-Allow-Methods"
ACAH == "Access-Control-Allow-Headers"
ACAC == "Access-Control-Allow-Credentials"

\* Responses reaching after_request: some already carry headers.
CorsInHeaders ==
    { EmptyMap,
      MapInsert(EmptyMap, "x-a", StrA),
      MapInsert(MapInsert(EmptyMap, "x-a", StrA), ACAO, StrOld),
      MapInsert(EmptyMap, ACAC, StrTrue) }
CorsInResponses ==
    { [status |-> st, headers |-> h, body |-> b] :
        st \in {200, 404}, h \in CorsInHeaders, b \in {BodyEmpty, BodyText("hi")} }
CorsRequests ==
    { RequestNew(HttpGetRoot),
      RequestNew([method |-> "OPTIONS", path |-> StrHealth,
                  headers |-> MapInsert(EmptyMap, "origin", StrA), peer |-> NoneStr,
                  payload |-> NoneStr]) }

CorsFrame == UNCHANGED <<respVars, authVars, ctrlVars, appVars, ffiVars, hookVars>>

SetAllowedOrigins ==
    \E l \in SeqsUpTo(OriginAtoms, MaxList) :
        /\ ~corsRun.ran
        /\ cors' = CorsAllowedOrigins(cors, l)
        /\ UNCHANGED corsRun
        /\ CorsFrame

SetAllowedMethods ==
    \E l \in SeqsUpTo(MethodAtoms, MaxList) :
        /\ ~corsRun.ran
        /\ cors' = CorsAllowedMethods(cors, l)
        /\ UNCHANGED corsRun
        /\ CorsFrame

SetAllowedHeaders ==
    \E l \in SeqsUpTo(HeaderAtoms, MaxList) :
        /\ ~corsRun.ran
        /\ cors' = CorsAllowedHeaders(cors, l)
        /\ UNCHANGED corsRun
        /\ CorsFrame

SetAllowCredentials ==
    \E b \in BOOLEAN :
        /\ ~corsRun.ran
        /\ cors' = CorsAllowCredentials(cors, b)
        /\ UNCHANGED corsRun
        /\ CorsFrame

CorsAfter ==
    \E req \in CorsRequests, r \in CorsInResponses :
        /\ corsRun' = [ran |-> TRUE, req |-> req, in |-> r,
                       out |-> CorsAfterRequest(cors, req, r)]
        /\ UNCHANGED cors
        /\ CorsFrame

NextCors ==
    \/ SetAllowedOrigins
    \/ SetAllowedMethods
    \/ SetAllowedHeaders
    \/ SetAllowCredentials
    \/ CorsAfter

SpecCors == Init /\ [][NextCors]_vars

(***************************************************************************)
(* SpecAuth: an AuthMiddleware is configured by its builder calls; once     *)
(* built it is only used through &self, and before_request is applied to   *)
(* requests                                                                *)
(***************************************************************************)
MaxPublic == 2

StrHealthz == StrHealth \o <<"z">>
StrSlashA == <<"/", "a">>
StrSlashAB == <<"/", "a", "b">>
StrSlashB == <<"/", "b">>
PublicAtoms == {StrHealth, StrSlash, StrSlashA}

\* The paths of requests: origin-form targets, which begin with "/", and the
\* asterisk-form target of a server-wide OPTIONS request.
AuthPaths == {StrSlash, StrHealth, StrHealthz, StrSlashA, StrSlashAB, StrSlashB, StrStar}
AuthHeaderVals ==
    { StrBearerSp \o <<"x">>,                      \* Bearer x
      StrBearerSp,                                 \* "Bearer " and no token
      <<"B", "e", "a", "r", "e", "r">>,            \* Bearer, no space
      <<"B", "a", "s", "i", "c", " ", "x">>,       \* Basic x
      <<"b", "e", "a", "r", "e", "r", " ", "x">> } \* bearer x
AuthHeaders ==
    {EmptyMap} \cup { MapInsert(EmptyMap, "authorization", v) : v \in AuthHeaderVals }
AuthRequests ==
    { RequestNew([method |-> "GET", path |-> p, headers |-> h, peer |-> NoneStr,
                  payload |-> NoneStr]) :
        p \in AuthPaths, h \in AuthHeaders }

AuthFrame == UNCHANGED <<respVars, corsVars, ctrlVars, appVars, ffiVars, hookVars>>

SetPublicPaths ==
    \E l \in SeqsUpTo(PublicAtoms, MaxPublic) :
        /\ ~authRun.ran
        /\ auth' = AuthPublicPaths(auth, l)
        /\ UNCHANGED authRun
        /\ AuthFrame

AuthBefore ==
    \E req \in AuthRequests :
        /\ authRun' = [ran |-> TRUE, req |-> req,
                       out |-> AuthBeforeRequest(auth, req)]
        /\ UNCHANGED auth
        /\ AuthFrame

NextAuth ==
    \/ SetPublicPaths
    \/ AuthBefore

SpecAuth == Init /\ [][NextAuth]_vars

(***************************************************************************)
(* SpecHooks: the hooks that pass everything through. A LoggingMiddleware   *)
(* is configured by its builder calls; its hooks, the trait's default      *)
(* hooks, and the before_request CorsMiddleware inherits are applied to    *)
(* Requests and Responses of any shape                                     *)
(***************************************************************************)
HookRequests ==
    { RequestNew(HttpGetRoot),
      RequestNew([method |-> "OPTIONS", path |-> StrHealth,
                  headers |-> MapInsert(EmptyMap, "origin", StrA), peer |-> NoneStr,
                  payload |-> NoneStr]),
      ReqSetBody(RequestNew([method |-> "POST", path |-> StrSlashA, headers |-> EmptyMap,
                             peer |-> SomeStr(<<"1">>), payload |-> NoneStr]),
                 <<"{", "}">>) }
HookResponses ==
    { [status |-> st, headers |-> h, body |-> b] :
        st \in {200, 404, 500},
        h \in {EmptyMap, MapInsert(EmptyMap, "x-a", StrA)},
        b \in {BodyEmpty, BodyText("hi"), BodyJson("null")} }

HooksFrame == UNCHANGED <<respVars, corsVars, authVars, ctrlVars, appVars, ffiVars>>

HookRan(mw, hook, req, r, out) ==
    /\ hookRun' = [ran |-> TRUE, mw |-> mw, hook |-> hook, req_in |-> req, resp_in |-> r,
                   out |-> out]
    /\ UNCHANGED logging
    /\ HooksFrame

SetLogBodies ==
    \E enable \in BOOLEAN :
        /\ ~hookRun.ran
        /\ logging' = LoggingLogBodies(logging, enable)
        /\ UNCHANGED hookRun
        /\ HooksFrame

SetLogResponses ==
    \E enable \in BOOLEAN :
        /\ ~hookRun.ran
        /\ logging' = LoggingLogResponses(logging, enable)
        /\ UNCHANGED hookRun
        /\ HooksFrame

DefaultBefore ==
    \E req \in HookRequests :
        HookRan("default", "before", req, ResponseNew,
                HookResult(req, DefaultBeforeRequest(req), ResponseNew, <<>>))

DefaultAfter ==
    \E req \in HookRequests, r \in HookResponses :
        HookRan("default", "after", req, r,
                HookResult(req, NoResponse, DefaultAfterRequest(req, r), <<>>))

LoggingBefore ==
    \E req \in HookRequests :
        HookRan("Logging", "before", req, ResponseNew, LoggingBeforeRequest(logging, req))

LoggingAfter ==
    \E req \in HookRequests, r \in HookResponses :
        HookRan("Logging", "after", req, r, LoggingAfterRequest(logging, req, r))

\* CorsMiddleware implements after_request only: its before_request is the
\* trait's default.
CorsBefore ==
    \E req \in HookRequests :
        HookRan("Cors", "before", req, ResponseNew,
                HookResult(req, DefaultBeforeRequest(req), ResponseNew, <<>>))

NextHooks ==
    \/ SetLogBodies
    \/ SetLogResponses
    \/ DefaultBefore
    \/ DefaultAfter
    \/ LoggingBefore
    \/ LoggingAfter
    \/ CorsBefore

SpecHooks == Init /\ [][NextHooks]_vars

(***************************************************************************)
(* SpecCtrl: a BasicController is built by its builder calls, then         *)
(* register_routes fills a ServiceConfig from it                           *)
(***************************************************************************)
MaxRoutes == 3

StrSlashU == <<"/", "u">>
StrSlashASlash == <<"/", "a", "/">>
RoutePaths == {StrSlash, StrSlashU}
BasePaths == {StrSlashA, StrSlashASlash}
\* Route's fields are public: a Route can carry any method string.
RawMethods == {"GET", "TRACE", "get"}

CtrlFrame == UNCHANGED <<respVars, corsVars, authVars, appVars, ffiVars, hookVars>>

\* Each handler is a closure of its own: the model names it by the position
\* of its route.
NextHandler == Len(controller.routes) + 1

CanAddRoute == ~config.done /\ Len(controller.routes) < MaxRoutes

AddBasePath ==
    \E p \in BasePaths :
        /\ ~config.done
        /\ controller' = CtrlBasePath(controller, p)
        /\ UNCHANGED config
        /\ CtrlFrame

AddRoute ==
    \E m \in RawMethods, p \in RoutePaths :
        /\ CanAddRoute
        /\ controller' = CtrlRoute(controller,
                                   [method |-> m, path |-> p, handler |-> NextHandler])
        /\ UNCHANGED config
        /\ CtrlFrame

AddGet ==
    \E p \in RoutePaths :
        /\ CanAddRoute
        /\ controller' = CtrlGet(controller, p, NextHandler)
        /\ UNCHANGED config
        /\ CtrlFrame

AddPost ==
    \E p \in RoutePaths :
        /\ CanAddRoute
        /\ controller' = CtrlPost(controller, p, NextHandler)
        /\ UNCHANGED config
        /\ CtrlFrame

AddPut ==
    \E p \in RoutePaths :
        /\ CanAddRoute
        /\ controller' = CtrlPut(controller, p, NextHandler)
        /\ UNCHANGED config
        /\ CtrlFrame

AddDelete ==
    \E p \in RoutePaths :
        /\ CanAddRoute
        /\ controller' = CtrlDelete(controller, p, NextHandler)
        /\ UNCHANGED config
        /\ CtrlFrame

AddPatch ==
    \E p \in RoutePaths :
        /\ CanAddRoute
        /\ controller' = CtrlPatch(controller, p, NextHandler)
        /\ UNCHANGED config
        /\ CtrlFrame

DoRegisterRoutes ==
    /\ ~config.done
    /\ config' = [RegisterRoutes(controller, config) EXCEPT !.done = TRUE]
    /\ UNCHANGED controller
    /\ CtrlFrame

NextCtrl ==
    \/ AddBasePath
    \/ AddRoute
    \/ AddGet
    \/ AddPost
    \/ AddPut
    \/ AddDelete
    \/ AddPatch
    \/ DoRegisterRoutes

SpecCtrl == Init /\ [][NextCtrl]_vars

(***************************************************************************)
(* SpecApp: an Application is configured by its builder calls, run, and    *)
(* serves requests until the server stops                                  *)
(***************************************************************************)
MaxControllers == 2
MaxMiddlewares == 2

\* The controller of examples/simple_server.rs with short paths, and a second
\* one without a base path that holds an unsupported method.
ApiController ==
    CtrlGet(CtrlGet(CtrlBasePath(ControllerNew, StrSlashA), StrSlash, "hello"),
            StrSlashU, "users")
PlainController ==
    CtrlRoute(CtrlPost(ControllerNew, StrSlashB, "echo"),
              [method |-> "TRACE", path |-> StrSlashB, handler |-> "hello"])
Controllers == {ApiController, PlainController}

Middlewares ==
    { [kind |-> "Cors"], [kind |-> "Logging"], [kind |-> "Authentication"] }

Hosts == {"127.0.0.1", "0.0.0.0"}
Ports == {8080, 3000}
StateKeys == {"env"}
StateVals == {"dev", "prod"}

\* What a client sends as the body of a request: nothing, or a JSON document.
Payloads == {NoneStr, SomeStr(<<"{", "}">>)}

AppHttpRequests ==
    { [method |-> m, path |-> p, headers |-> EmptyMap, peer |-> NoneStr,
       payload |-> b] :
        b \in Payloads,
        m \in {"GET", "POST", "TRACE"},
        p \in {StrSlashA \o StrSlash, StrSlashA \o StrSlashU, StrSlashB} }

AppFrame == UNCHANGED <<respVars, corsVars, authVars, ctrlVars, ffiVars, hookVars>>

Building == server.phase = "building"

SetHost ==
    \E h \in Hosts :
        /\ Building
        /\ app' = AppHost(app, h)
        /\ UNCHANGED <<server, exchange>>
        /\ AppFrame

SetPort ==
    \E n \in Ports :
        /\ Building
        /\ app' = AppPort(app, n)
        /\ UNCHANGED <<server, exchange>>
        /\ AppFrame

AddController ==
    \E c \in Controllers :
        /\ Building
        /\ Len(app.controllers) < MaxControllers
        /\ app' = AppController(app, c)
        /\ UNCHANGED <<server, exchange>>
        /\ AppFrame

AddMiddleware ==
    \E m \in Middlewares :
        /\ Building
        /\ Len(app.middlewares) < MaxMiddlewares
        /\ app' = AppMiddleware(app, m)
        /\ UNCHANGED <<server, exchange>>
        /\ AppFrame

SetState ==
    \E k \in StateKeys, v \in StateVals :
        /\ Building
        /\ app' = AppState(app, k, v)
        /\ UNCHANGED <<server, exchange>>
        /\ AppFrame

\* run(self): the bind succeeds or fails as the environment has it.
Run ==
    \E bind_ok \in BOOLEAN :
        /\ Building
        /\ server' = AppRun(app, bind_ok)
        /\ UNCHANGED <<app, exchange>>
        /\ AppFrame

HandleRequest ==
    \E http \in AppHttpRequests :
        /\ server.phase = "running"
        /\ exchange' = Serve(server, http)
        /\ UNCHANGED <<app, server>>
        /\ AppFrame

\* The server is stopped and run returns Ok.
Stop ==
    /\ server.phase = "running"
    /\ server' = [server EXCEPT !.phase = "stopped"]
    /\ UNCHANGED <<app, exchange>>
    /\ AppFrame

NextApp ==
    \/ SetHost
    \/ SetPort
    \/ AddController
    \/ AddMiddleware
    \/ SetState
    \/ Run
    \/ HandleRequest
    \/ Stop

SpecApp == Init /\ [][NextApp]_vars

(***************************************************************************)
(* SpecFfi: a foreign caller drives the boundary with any handle it ever   *)
(* got (live or already released), null pointers, and C strings that are   *)
(* or are not UTF-8                                                        *)
(***************************************************************************)
MaxObjects == 2

CStr(bytes) == [null |-> FALSE, bytes |-> bytes]
CStrInputs ==
    { NoCStr,                 \* a null pointer
      CStr(<<104, 105>>),     \* "hi"
      CStr(<<195, 169>>),     \* "e" with an acute accent, two bytes
      CStr(<<255>>),          \* not UTF-8
      CStr(<<195>>) }         \* a truncated two-byte character
PortInputs == {8080}
StatusCodeInputs == {404}

Handles(kind) == {Null} \cup {p \in 1..Len(heap) : heap[p].kind = kind}
WasLive(p) == p \in 1..Len(heap) /\ heap[p].live

FfiFrame == UNCHANGED <<respVars, corsVars, authVars, ctrlVars, appVars, hookVars>>

\* No call has run into undefined behaviour or aborted the process.
ProcessRuns == ffi.ub = "none" /\ ~ffi.aborted

Returned(fn, p, arg, outcome, res) ==
    /\ heap' = res.heap
    /\ ffi' = [fn |-> fn, h |-> p, arg |-> arg, outcome |-> outcome, ret |-> res.ret,
               ub |-> res.ub, was_live |-> WasLive(p), aborted |-> FALSE]
    /\ UNCHANGED logger
    /\ FfiFrame

CallApplicationNew ==
    /\ ProcessRuns
    /\ Len(heap) < MaxObjects
    /\ Returned("dia_application_new", Len(heap) + 1, NoCStr, "none",
                Result(0, FfiApplicationNew(heap), "none"))

CallApplicationHost ==
    \E p \in Handles("app"), host \in CStrInputs :
        /\ ProcessRuns
        /\ Returned("dia_application_host", p, host, "none",
                    FfiApplicationHost(heap, p, host))

CallApplicationPort ==
    \E p \in Handles("app"), port \in PortInputs :
        /\ ProcessRuns
        /\ Returned("dia_application_port", p, NoCStr, "none",
                    FfiApplicationPort(heap, p, port))

CallApplicationRun ==
    \E p \in Handles("app"), outcome \in RunOutcomes, ub \in UbOutcomes :
        /\ ProcessRuns
        /\ Returned("dia_application_run", p, NoCStr, outcome,
                    FfiApplicationRun(heap, p, outcome, ub))

CallApplicationFree ==
    \E p \in Handles("app"), ub \in UbOutcomes :
        /\ ProcessRuns
        /\ Returned("dia_application_free", p, NoCStr, "none",
                    FfiApplicationFree(heap, p, ub))

CallApplicationGet ==
    \E p \in Handles("app"), path \in CStrInputs :
        /\ ProcessRuns
        /\ Returned("dia_application_get", p, path, "none",
                    FfiApplicationGet(heap, p, path))

CallResponseNew ==
    /\ ProcessRuns
    /\ Len(heap) < MaxObjects
    /\ Returned("dia_response_new", Len(heap) + 1, NoCStr, "none",
                Result(0, FfiResponseNew(heap), "none"))

CallResponseText ==
    \E p \in Handles("resp"), text \in CStrInputs :
        /\ ProcessRuns
        /\ Returned("dia_response_text", p, text, "none",
                    FfiResponseText(heap, p, text))

CallResponseJson ==
    \E p \in Handles("resp"), json_str \in CStrInputs :
        /\ ProcessRuns
        /\ Returned("dia_response_json", p, json_str, "none",
                    FfiResponseJson(heap, p, json_str))

CallResponseStatus ==
    \E p \in Handles("resp"), status \in StatusCodeInputs :
        /\ ProcessRuns
        /\ Returned("dia_response_status", p, NoCStr, "none",
                    FfiResponseStatus(heap, p, status))

CallResponseFree ==
    \E p \in Handles("resp"), ub \in UbOutcomes :
        /\ ProcessRuns
        /\ Returned("dia_response_free", p, NoCStr, "none",
                    FfiResponseFree(heap, p, ub))

CallVersion ==
    /\ ProcessRuns
    /\ Len(heap) < MaxObjects
    /\ Returned("dia_version", Len(heap) + 1, NoCStr, "none",
                Result(0, FfiVersion(heap), "none"))

CallFreeString ==
    \E p \in Handles("str"), ub \in UbOutcomes :
        /\ ProcessRuns
        /\ Returned("dia_free_string", p, NoCStr, "none",
                    FfiFreeString(heap, p, ub))

CallInit ==
    LET res == FfiInit(logger) IN
    /\ ProcessRuns
    /\ ffi' = [fn |-> "dia_init", h |-> Null, arg |-> NoCStr, outcome |-> "none",
               ret |-> res.ret, ub |-> "none", was_live |-> FALSE,
               aborted |-> res.aborted]
    /\ logger' = res.logger
    /\ UNCHANGED heap
    /\ FfiFrame

NextFfi ==
    \/ CallInit
    \/ CallApplicationNew
    \/ CallApplicationHost
    \/ CallApplicationPort
    \/ CallApplicationRun
    \/ CallApplicationFree
    \/ CallApplicationGet
    \/ CallResponseNew
    \/ CallResponseText
    \/ CallResponseJson
    \/ CallResponseStatus
    \/ CallResponseFree
    \/ CallVersion
    \/ CallFreeString

SpecFfi == Init /\ [][NextFfi]_vars

(***************************************************************************)
(* Reading the call history                                                *)
(***************************************************************************)
JsonFails(c) == c.op = "json" /\ ~ToValue(c.val).ok

\* The content type a call writes under the key `content-type`, "" if none,
\* for the writers the claim lists.
ListedCtWrite(c) ==
    CASE c.op = "text" -> CtText
      [] c.op = "html" -> CtHtml
      [] c.op = "json" /\ ToValue(c.val).ok -> CtJson
      [] c.op = "binary" -> CtBinary
      [] c.op = "header" /\ c.key = "content-type" -> c.val
      [] c.op = "headers" /\ "content-type" \in DOMAIN c.map -> c.map["content-type"]
      [] OTHER -> ""

\* The same, with the json fallback's write counted as well.
AnyCtWrite(c) == IF JsonFails(c) THEN CtText ELSE ListedCtWrite(c)

LastListedCtIdx ==
    LET S == {i \in 1..Len(calls) : ListedCtWrite(calls[i]) # ""}
    IN IF S = {} THEN 0 ELSE CHOOSE i \in S : \A j \in S : j <= i

LastAnyCtIdx ==
    LET S == {i \in 1..Len(calls) : AnyCtWrite(calls[i]) # ""}
    IN IF S = {} THEN 0 ELSE CHOOSE i \in S : \A j \in S : j <= i

HasCt(r, v) == "content-type" \in DOMAIN r.headers /\ r.headers["content-type"] = v

\* C6 as stated: after any sequence of builder calls the content-type header is
\* the value written by the last of text, html, successful json, binary or an
\* explicit header/headers write of the key content-type.
C6_Original ==
    LastListedCtIdx # 0 => HasCt(resp, ListedCtWrite(calls[LastListedCtIdx]))

\* C6 amended: the same, with a failed json (which writes text/plain;
\* charset=utf-8) counted among the writers.
C6_ContentTypeLastWriter ==
    LastAnyCtIdx # 0 => HasCt(resp, AnyCtWrite(calls[LastAnyCtIdx]))

\* C6 witness: a body setter wrote its default and a later explicit header
\* overrode it, then a failed json wrote the fallback's content type.
C6_Witness ==
    /\ Len(calls) = 3
    /\ calls[1].op = "html"
    /\ calls[2].op = "header" /\ calls[2].key = "content-type"
    /\ JsonFails(calls[3])

\* C7: json on data whose serialisation fails yields status 500, body
\* Text("Failed to serialize JSON") and content-type text/plain; charset=utf-8
\* whatever the Response held before, and keeps every other header.
C7_JsonFallback ==
    [][(calls' # calls /\ JsonFails(calls'[Len(calls')]))
        => /\ resp'.status = 500
           /\ resp'.body = BodyText("Failed to serialize JSON")
           /\ DOMAIN resp'.headers = (DOMAIN resp.headers) \cup {"content-type"}
           /\ resp'.headers["content-type"] = CtText
           /\ \A k \in (DOMAIN resp.headers) \ {"content-type"} :
                  resp'.headers[k] = resp.headers[k]]_vars

\* C7 witness: the fallback was taken on a Response that had another status,
\* another body and a header of its own.
C7_Witness ==
    /\ Len(calls) = 3
    /\ calls[1].op = "status" /\ calls[1].num = 404
    /\ calls[2].op = "headers" /\ "x-a" \in DOMAIN calls[2].map
    /\ JsonFails(calls[3])
    /\ "x-a" \in DOMAIN resp.headers

(***************************************************************************)
(* Claims about the middlewares                                            *)
(***************************************************************************)
\* s begins with p, said without the code's operator.
IsPrefix(p, s) == \E n \in 0..Len(s) : SubSeq(s, 1, n) = p

\* C3: AuthMiddleware.before_request returns None for a path that starts with
\* a configured public path, whatever the headers; otherwise None when the
\* authorization header starts with "Bearer "; otherwise a 401 Response with
\* body Text("Authentication required") and content-type text/plain;
\* charset=utf-8.
C3_AuthDecision ==
    authRun.ran =>
        LET req == authRun.req
            public == \E i \in DOMAIN auth.public_paths :
                          IsPrefix(auth.public_paths[i], req.path)
            bearer == /\ "authorization" \in DOMAIN req.headers
                      /\ IsPrefix(<<"B", "e", "a", "r", "e", "r", " ">>,
                                  req.headers["authorization"])
        IN IF public \/ bearer
           THEN ~authRun.out.some
           ELSE /\ authRun.out.some
                /\ authRun.out.resp.status = 401
                /\ authRun.out.resp.body = BodyText("Authentication required")
                /\ HasCt(authRun.out.resp, "text/plain; charset=utf-8")

\* C3 witness: a non-public path with a non-Bearer authorization header was
\* refused with the 401.
C3_Witness ==
    /\ authRun.ran
    /\ auth.public_paths = <<StrHealth>>
    /\ authRun.req.path = StrSlashA
    /\ "authorization" \in DOMAIN authRun.req.headers
    /\ authRun.out.some
    /\ authRun.out.resp.status = 401

CorsKeys == {ACAO, ACAM, ACAH}

CorsSetsThree ==
    LET mw == cors
        out == corsRun.out
    IN /\ CorsKeys \subseteq DOMAIN out.headers
       /\ out.headers[ACAO] = Join(mw.allowed_origins, <<",", " ">>)
       /\ out.headers[ACAM] = Join(mw.allowed_methods, <<",", " ">>)
       /\ out.headers[ACAH] = Join(mw.allowed_headers, <<",", " ">>)
       /\ (mw.allowed_origins = <<StrStar, StrA>> => out.headers[ACAO] = <<"*", ",", " ", "a">>)
       /\ (mw.allowed_methods = <<>> => out.headers[ACAM] = <<>>)
       /\ out.status = corsRun.in.status
       /\ out.body = corsRun.in.body

\* The headers outside `keys` are the same in the input and the output.
SameHeadersOutside(keys) ==
    /\ (DOMAIN corsRun.out.headers) \ keys = (DOMAIN corsRun.in.headers) \ keys
    /\ \A k \in (DOMAIN corsRun.in.headers) \ keys :
           corsRun.out.headers[k] = corsRun.in.headers[k]

\* C4 as stated: after_request sets the three Access-Control-Allow-Origin/
\* Methods/Headers headers to the configured lists joined with ", ", and the
\* status, the body and all other headers are unchanged.
C4_Original == corsRun.ran => (CorsSetsThree /\ SameHeadersOutside(CorsKeys))

\* C4 amended: the same, where "all other headers" leaves out
\* Access-Control-Allow-Credentials, which after_request also writes when
\* credentials are enabled.
C4_CorsInjection == corsRun.ran => (CorsSetsThree /\ SameHeadersOutside(CorsKeys \cup {ACAC}))

\* C4 witness: a 404 Response that already carried an Access-Control-Allow-Origin
\* and a header of its own went through a middleware with two origins.
C4_Witness ==
    /\ corsRun.ran
    /\ cors.allowed_origins = <<StrStar, StrA>>
    /\ corsRun.in.status = 404
    /\ ACAO \in DOMAIN corsRun.in.headers
    /\ "x-a" \in DOMAIN corsRun.in.headers
    /\ corsRun.req.method = "OPTIONS"

\* C5: the output of after_request has Access-Control-Allow-Credentials: true
\* if and only if the middleware was configured with allow_credentials = true,
\* whatever headers the Response already carried.
C5_CredentialsIff ==
    corsRun.ran =>
        ((ACAC \in DOMAIN corsRun.out.headers /\ corsRun.out.headers[ACAC] = StrTrue)
            <=> cors.allow_credentials)

(***************************************************************************)
(* Claims about route registration                                         *)
(***************************************************************************)
HttpMethods == {"GET", "POST", "PUT", "DELETE", "PATCH"}
IsHttpMethod(route) == route.method \in HttpMethods

\* C1: register_routes registers every route whose method is one of
\* GET/POST/PUT/DELETE/PATCH under base_path ++ route.path (plain
\* concatenation: base "/a/" with route "/u" gives "/a//u"), under route.path
\* unchanged when no base path was set, in the order the routes were added.
C1_RegisteredPaths ==
    config.done =>
        LET wanted == SelectSeq(controller.routes, IsHttpMethod) IN
        /\ Len(config.routes) = Len(wanted)
        /\ \A i \in 1..Len(wanted) :
               /\ config.routes[i].guard = wanted[i].method
               /\ config.routes[i].handler = wanted[i].handler
               /\ config.routes[i].path =
                      IF controller.base_path.some
                      THEN controller.base_path.val \o wanted[i].path
                      ELSE wanted[i].path
        /\ (/\ controller.base_path = SomeStr(<<"/", "a", "/">>)
            /\ Len(wanted) > 0
            /\ wanted[1].path = <<"/", "u">>
            => config.routes[1].path = <<"/", "a", "/", "/", "u">>)

\* C1 witness: two routes were registered in order under the base path "/a/",
\* the first one giving the double slash.
C1_Witness ==
    /\ config.done
    /\ controller.base_path = SomeStr(StrSlashASlash)
    /\ Len(config.routes) = 2
    /\ config.routes[1].path = <<"/", "a", "/", "/", "u">>
    /\ config.routes[1].guard = "POST"
    /\ config.routes[2].guard = "GET"
    /\ config.routes[2].handler = 2

(***************************************************************************)
(* Claims about the request pipeline                                       *)
(***************************************************************************)
HookEvents(hook, n) == [i \in 1..n |-> [hook |-> hook, mw |-> i]]

\* C2: within one request that matched a route, on an Application with
\* middlewares m1..mn registered in that order, the before_request hooks of
\* m1..mn run in registration order, then the handler, then the after_request
\* hooks of m1..mn in the same order.
C2_HookOrder ==
    (exchange.done /\ exchange.matched # 0) =>
        exchange.trace =
            HookEvents("before", Len(app.middlewares))
                \o <<[hook |-> "handler", mw |-> 0]>>
                \o HookEvents("after", Len(app.middlewares))

(***************************************************************************)
(* Claims about the C boundary                                             *)
(***************************************************************************)
IntFns ==
    {"dia_application_host", "dia_application_port", "dia_application_run",
     "dia_application_get", "dia_response_text", "dia_response_json",
     "dia_response_status"}
StrFns ==
    {"dia_application_host", "dia_application_get", "dia_response_text",
     "dia_response_json"}
MutatorFns ==
    {"dia_application_host", "dia_application_port", "dia_response_text",
     "dia_response_json", "dia_response_status"}
FreeFns == {"dia_application_free", "dia_response_free", "dia_free_string"}

\* The byte strings of the model that are not UTF-8.
NotUtf8 == { <<255>>, <<195>> }

\* The call `c` was made with a null pointer or an undecodable string.
BadArgument(c) ==
    \/ c.h = Null
    \/ c.fn \in StrFns /\ (c.arg.null \/ c.arg.bytes \in NotUtf8)

\* C8: every integer-returning boundary function returns -1 when a pointer
\* argument is null or a string argument is not valid UTF-8, and 0 otherwise
\* on success; on such a -1 the object behind the handle is neither modified
\* nor released.
C8_ReturnCodes ==
    [][(ffi'.fn \in IntFns /\ ffi'.ub = "none")
        => /\ BadArgument(ffi') => (ffi'.ret = -1 /\ heap' = heap)
           /\ (~BadArgument(ffi') /\ ffi'.outcome \in {"none", "stopped"}) => ffi'.ret = 0]_vars

\* The object behind p was released by a free function.
FreedByFree(p) == heap[p].released_by # <<>> /\ heap[p].released_by[1] \in FreeFns

\* C9: a free function called with a null handle or an already freed handle
\* is a safe no-op (the object is released at most once), and a mutator
\* called with a null or an already freed handle returns -1.
C9_FreedHandleSafe ==
    /\ (ffi.fn \in FreeFns /\ ffi.h # Null /\ FreedByFree(ffi.h))
           => (ffi.ub = "none" /\ Len(heap[ffi.h].released_by) <= 1)
    /\ (ffi.fn \in MutatorFns /\ (ffi.h = Null \/ (~ffi.was_live /\ FreedByFree(ffi.h))))
           => ffi.ret = -1

\* C10: dia_application_run on a non-null handle takes ownership of the
\* Application and releases it exactly once on every return path (stopped: 0,
\* bind failure: -1, runtime creation failure: -1); afterwards the handle is
\* not live, and a dia_application_free on it is a second release.
C10_RunConsumes ==
    /\ (ffi.fn = "dia_application_run" /\ ffi.was_live)
           => /\ ffi.ub = "none"
              /\ ~heap[ffi.h].live
              /\ heap[ffi.h].released_by = <<"dia_application_run">>
              /\ ffi.ret = (IF ffi.outcome = "stopped" THEN 0 ELSE -1)
    /\ \A p \in 1..Len(heap) :
           (heap[p].released_by # <<>> /\ heap[p].released_by[1] = "dia_application_run")
               => ~heap[p].live
    /\ (/\ ffi.fn = "dia_application_free"
        /\ ffi.h # Null
        /\ heap[ffi.h].released_by[1] = "dia_application_run")
           => /\ heap[ffi.h].released_by = <<"dia_application_run", "dia_application_free">>
              /\ ffi.ub # "none"

\* C10 witness: run returned -1 for a bind failure on a live handle, and the
\* Application behind it is gone.
C10_Witness ==
    /\ ffi.fn = "dia_application_run"
    /\ ffi.was_live
    /\ ffi.outcome = "bind_failed"
    /\ ffi.ret = -1
    /\ ~heap[ffi.h].live

(***************************************************************************)
(* Claims about ownership across the C boundary                            *)
(***************************************************************************)
CreateFns == {"dia_application_new", "dia_response_new", "dia_version"}
ReleaseFns == FreeFns \cup {"dia_application_run"}
NoOpFns == MutatorFns \cup {"dia_application_get"}

\* The caller passes a handle it still owns, or a null pointer.
OwnedByCaller(c) == c.h = Null \/ c.was_live

\* Every object of hp is either still the caller's (never released) or was
\* released exactly once.
ReleasedAtMostOnce(hp) ==
    \A p \in 1..Len(hp) :
        /\ hp[p].live <=> hp[p].released_by = <<>>
        /\ Len(hp[p].released_by) <= 1

\* C11: as long as the caller never passes a handle it gave to run or free,
\* every call keeps each object owned by one side and released at most once:
\* a constructor adds one live object, the setters and dia_application_get
\* leave the heap as it is, and a free function or dia_application_run
\* releases exactly the object behind its handle, once, with no undefined
\* behaviour.
C11_ExclusiveOwnership ==
    [][(/\ ffi.ub = "none"
        /\ ReleasedAtMostOnce(heap)
        /\ (ffi'.fn \in CreateFns \/ OwnedByCaller(ffi')))
        => /\ ffi'.ub = "none"
           /\ ReleasedAtMostOnce(heap')
           /\ ffi'.fn \in CreateFns
                  => /\ Len(heap') = Len(heap) + 1
                     /\ SubSeq(heap', 1, Len(heap)) = heap
                     /\ heap'[Len(heap')].live
           /\ ffi'.fn \in NoOpFns => heap' = heap
           /\ (ffi'.fn \in ReleaseFns /\ ffi'.h = Null) => heap' = heap
           /\ (ffi'.fn \in ReleaseFns /\ ffi'.h # Null)
                  => /\ Len(heap') = Len(heap)
                     /\ \A p \in 1..Len(heap) :
                            IF p = ffi'.h
                            THEN /\ ~heap'[p].live
                                 /\ heap'[p].released_by = <<ffi'.fn>>
                                 /\ heap'[p].value = heap[p].value
                            ELSE heap'[p] = heap[p]]_vars

\* C11 witness: the only object is an Application that was created and then
\* freed through a handle the caller still owned; nothing is left allocated.
C11_Witness ==
    /\ Len(heap) = 1
    /\ heap[1].kind = "app"
    /\ ffi.fn = "dia_application_free"
    /\ ffi.h = 1
    /\ ffi.was_live
    /\ ffi.ub = "none"
    /\ ~heap[1].live
    /\ heap[1].released_by = <<"dia_application_free">>

(***************************************************************************)
(* Claims about the status and the headers of a Response                   *)
(***************************************************************************)
\* The number is a status code the http crate accepts.
InStatusRange(n) == n \in 100..999

\* The calls of the history that are status calls with a valid code.
ValidStatusIdx == {i \in 1..Len(calls) : calls[i].op = "status" /\ InStatusRange(calls[i].num)}

\* The history holds status calls only.
OnlyStatusCalls == \A i \in 1..Len(calls) : calls[i].op = "status"

\* C12: status(n) sets the status to n when 100 <= n <= 999 and leaves the
\* previous status otherwise, and never touches headers or body; after status
\* calls only, the status is that of the last valid call, or 200 if none was
\* valid, and the Response has no headers and an Empty body.
C12_StatusValidation ==
    /\ [](OnlyStatusCalls
            => /\ resp.status =
                      (IF ValidStatusIdx = {} THEN 200
                       ELSE calls[CHOOSE i \in ValidStatusIdx :
                                      \A j \in ValidStatusIdx : j <= i].num)
               /\ resp.headers = EmptyMap
               /\ resp.body.tag = "Empty")
    /\ [][(calls' # calls /\ calls'[Len(calls')].op = "status")
            => /\ resp'.status =
                      (IF InStatusRange(calls'[Len(calls')].num)
                       THEN calls'[Len(calls')].num ELSE resp.status)
               /\ resp'.headers = resp.headers
               /\ resp'.body = resp.body]_vars

\* C12 witness: a valid code was set and two invalid ones, one below 100 and
\* one above 999, were ignored after it.
C12_Witness ==
    /\ Len(calls) = 3
    /\ calls[1].op = "status" /\ calls[1].num = 404
    /\ calls[2].op = "status" /\ calls[2].num = 1000
    /\ calls[3].op = "status" /\ calls[3].num = 99
    /\ resp.status = 404

(***************************************************************************)
(* Claims about routes with an unsupported method                          *)
(***************************************************************************)
\* The positions in the ServiceConfig at which the handler h was registered.
RegisteredAt(h) == {j \in 1..Len(config.routes) : config.routes[j].handler = h}

\* C13: register_routes returns normally; a route whose method string is not
\* exactly one of GET/POST/PUT/DELETE/PATCH ("TRACE", lowercase "get") is
\* registered nowhere and logged once, and every other route of the
\* controller, before or after it, is registered exactly once with its own
\* method.
C13_UnsupportedSkipped ==
    config.done =>
        /\ \A i \in 1..Len(controller.routes) :
               LET r == controller.routes[i] IN
               IF r.method \in HttpMethods
               THEN /\ Cardinality(RegisteredAt(r.handler)) = 1
                    /\ \A j \in RegisteredAt(r.handler) : config.routes[j].guard = r.method
               ELSE /\ RegisteredAt(r.handler) = {}
                    /\ \E w \in 1..Len(config.warnings) : config.warnings[w] = r.method
        /\ Len(config.warnings) =
               Cardinality({i \in 1..Len(controller.routes) :
                               controller.routes[i].method \notin HttpMethods})

\* C13 witness: a TRACE route sits between two supported routes; the two are
\* registered and the TRACE route is not.
C13_Witness ==
    /\ config.done
    /\ Len(controller.routes) = 3
    /\ controller.routes[1].method = "POST"
    /\ controller.routes[2].method = "TRACE"
    /\ controller.routes[3].method = "GET"
    /\ Len(config.routes) = 2
    /\ config.routes[1].handler = 1
    /\ config.routes[2].handler = 3
    /\ config.warnings = <<"TRACE">>

\* The value a call stores under the key k, "" if it does not write k.
KeyWrite(c, k) ==
    CASE c.op = "header" /\ c.key = k -> c.val
      [] c.op = "headers" /\ k \in DOMAIN c.map -> c.map[k]
      [] c.op = "redirect" /\ k = "location" -> c.val
      [] k = "content-type" -> AnyCtWrite(c)
      [] OTHER -> ""

\* The last call of the history that wrote the key k, 0 if none did.
LastKeyWriteIdx(k) ==
    LET S == {i \in 1..Len(calls) : KeyWrite(calls[i], k) # ""}
    IN IF S = {} THEN 0 ELSE CHOOSE i \in S : \A j \in S : j <= i

AllKeys == {"content-type", "Content-Type", "x-a", "location"}

\* C14: the headers of a Response are last-write-wins per key: each key holds
\* the value of the most recent call that wrote exactly that key and is absent
\* if none did; header(k, v) and headers(map) change only the keys they write
\* and leave status and body alone; keys are case-sensitive, so
\* header("Content-Type", v) leaves the content-type entry of text() in place.
C14_HeaderLastWriteWins ==
    /\ [](/\ DOMAIN resp.headers \subseteq AllKeys
          /\ \A k \in AllKeys :
                 IF LastKeyWriteIdx(k) = 0 THEN k \notin DOMAIN resp.headers
                 ELSE /\ k \in DOMAIN resp.headers
                      /\ resp.headers[k] = KeyWrite(calls[LastKeyWriteIdx(k)], k))
    /\ [][(calls' # calls /\ calls'[Len(calls')].op \in {"header", "headers"})
            => LET c == calls'[Len(calls')]
                   written == IF c.op = "header" THEN {c.key} ELSE DOMAIN c.map
               IN /\ resp'.status = resp.status
                  /\ resp'.body = resp.body
                  /\ DOMAIN resp'.headers = DOMAIN resp.headers \cup written
                  /\ \A k \in DOMAIN resp.headers \ written :
                         resp'.headers[k] = resp.headers[k]
                  /\ (c.op = "header" /\ c.key = "Content-Type"
                          /\ "content-type" \in DOMAIN resp.headers)
                         => resp'.headers["content-type"] = resp.headers["content-type"]]_vars

\* C14 witness: text() wrote content-type, a headers call wrote x-a, and
\* header("Content-Type", ..) then made an entry of its own beside
\* content-type.
C14_Witness ==
    /\ Len(calls) = 3
    /\ calls[1].op = "text"
    /\ calls[2].op = "headers" /\ DOMAIN calls[2].map = {"x-a"}
    /\ calls[3].op = "header" /\ calls[3].key = "Content-Type"
    /\ DOMAIN resp.headers = {"content-type", "x-a", "Content-Type"}
    /\ resp.headers["content-type"] = CtText

(***************************************************************************)
(* Claims about the configuration of an Application                        *)
(***************************************************************************)
\* What one controller registers: its supported routes, in order, each under
\* the base path followed by the route path.
RoutesOf(c) ==
    LET sel == SelectSeq(c.routes, IsHttpMethod) IN
    [i \in 1..Len(sel) |->
        [guard |-> sel[i].method,
         path |-> (IF c.base_path.some THEN c.base_path.val ELSE <<>>) \o sel[i].path,
         handler |-> sel[i].handler]]

\* The routes of the controllers cs, one controller after the other.
RECURSIVE RoutesOfAll(_)
RoutesOfAll(cs) == IF cs = <<>> THEN <<>> ELSE RoutesOf(Head(cs)) \o RoutesOfAll(Tail(cs))

\* One builder call took the Application from a to b.
BuilderStep(a, b) ==
    \/ b = [a EXCEPT !.host = b.host]
    \/ b = [a EXCEPT !.port = b.port]
    \/ /\ b = [a EXCEPT !.controllers = b.controllers]
       /\ Len(b.controllers) = Len(a.controllers) + 1
       /\ SubSeq(b.controllers, 1, Len(a.controllers)) = a.controllers
    \/ /\ b = [a EXCEPT !.middlewares = b.middlewares]
       /\ Len(b.middlewares) = Len(a.middlewares) + 1
       /\ SubSeq(b.middlewares, 1, Len(a.middlewares)) = a.middlewares
    \/ /\ b = [a EXCEPT !.state = b.state]
       /\ \E k \in DOMAIN b.state :
              /\ DOMAIN b.state = DOMAIN a.state \cup {k}
              /\ \A j \in DOMAIN a.state \ {k} : b.state[j] = a.state[j]

Dispatched == exchange.done /\ exchange.matched # 0

\* C16: the Request a handler is given has had its parsed body (and path
\* parameters) populated by the router before the handler sees it: a request
\* sent with a JSON payload reaches the handler with that body attached.
C16_RequestPopulated ==
    (Dispatched /\ exchange.http.payload.some)
        => /\ exchange.seen_req.body.some
           /\ exchange.seen_req.body.val = exchange.http.payload.val

\* What each handler of the model answers, as the client receives it.
ExpectedSent(handler) ==
    CASE handler = "hello" ->
             [status |-> 200,
              headers |-> [k \in {"content-type"} |-> "text/plain; charset=utf-8"],
              payload |-> [tag |-> "Text", text |-> "Hello from dia!", data |-> <<>>]]
      [] handler = "users" ->
             [status |-> 200,
              headers |-> [k \in {"content-type"} |-> "application/json"],
              payload |-> [tag |-> "Json", text |-> "{\"message\":\"hi\"}", data |-> <<>>]]
      [] OTHER ->
             [status |-> 200,
              headers |-> [k \in {} |-> ""],
              payload |-> [tag |-> "Empty", text |-> "", data |-> <<>>]]

\* C17: whatever middlewares are registered, a request that matches a route
\* goes to the handler alone: no before_request or after_request hook runs,
\* the handler is given a fresh Request and a fresh Response (200, no headers,
\* Empty), and its result is sent as it is. So a registered AuthMiddleware
\* never answers 401 to a request without credentials and a registered
\* CorsMiddleware adds no Access-Control header.
C17_MiddlewaresNotInterposed ==
    Dispatched =>
        /\ exchange.trace = <<[hook |-> "handler", mw |-> 0]>>
        /\ exchange.seen_req.method = exchange.http.method
        /\ exchange.seen_req.path = exchange.http.path
        /\ exchange.seen_req.headers = exchange.http.headers
        /\ exchange.seen_resp.status = 200
        /\ exchange.seen_resp.headers = [k \in {} |-> ""]
        /\ exchange.seen_resp.body.tag = "Empty"
        /\ exchange.sent = ExpectedSent(server.routes[exchange.matched].handler)
        /\ exchange.sent.status # 401
        /\ DOMAIN exchange.sent.headers \cap CorsKeys = {}

\* C17 witness: an Application with an AuthMiddleware and a CorsMiddleware
\* registered served a request that carries no authorization header, and the
\* handler's answer went out with no header added.
C17_Witness ==
    /\ Dispatched
    /\ Len(app.middlewares) = 2
    /\ app.middlewares[1].kind = "Authentication"
    /\ app.middlewares[2].kind = "Cors"
    /\ "authorization" \notin DOMAIN exchange.http.headers
    /\ server.routes[exchange.matched].handler = "echo"
    /\ exchange.sent.status = 200
    /\ exchange.sent.headers = EmptyMap

(***************************************************************************)
(* Claims about the setters of the C boundary                              *)
(***************************************************************************)
AppSetterFns == {"dia_application_host", "dia_application_port", "dia_application_get"}
RespSetterFns == {"dia_response_text", "dia_response_json", "dia_response_status"}

\* C18: the configuration functions of the boundary change nothing: whatever
\* calls were made, and in particular after a call of dia_application_host,
\* _port or _get that returned 0, an Application is still 127.0.0.1:8080 with
\* no controllers, and after a dia_response_text, _json or _status that
\* returned 0 a Response is still 200 with no headers and an Empty body.
C18_SettersNotWired ==
    \A p \in 1..Len(heap) :
        /\ heap[p].kind = "app"
               => /\ heap[p].value.host = "127.0.0.1"
                  /\ heap[p].value.port = 8080
                  /\ heap[p].value.controllers = <<>>
        /\ heap[p].kind = "resp"
               => /\ heap[p].value.status = 200
                  /\ heap[p].value.headers = [k \in {} |-> ""]
                  /\ heap[p].value.body.tag = "Empty"

\* C18 witness: dia_response_status(r, 404) returned 0 on a live Response,
\* whose status is still 200.
C18_Witness ==
    /\ ffi.fn = "dia_response_status"
    /\ ffi.was_live
    /\ ffi.ret = 0
    /\ heap[ffi.h].live
    /\ heap[ffi.h].value.status = 200

(***************************************************************************)
(* Claims about the pass-through hooks                                     *)
(***************************************************************************)
\* C19: the default before_request answers None for every request and the
\* default after_request gives back the Response it was given; the hooks of
\* LoggingMiddleware do the same for every log_bodies / log_responses setting
\* (before_request answers None and leaves the Request as it was,
\* after_request gives back the same status, headers and body); and the
\* before_request of CorsMiddleware answers None, for OPTIONS requests too.
C19_PassThrough ==
    hookRun.ran =>
        /\ hookRun.hook = "before"
               => /\ ~hookRun.out.short.some
                  /\ hookRun.out.req = hookRun.req_in
        /\ hookRun.hook = "after"
               => /\ hookRun.out.resp.status = hookRun.resp_in.status
                  /\ hookRun.out.resp.headers = hookRun.resp_in.headers
                  /\ hookRun.out.resp.body = hookRun.resp_in.body
                  /\ hookRun.out.req = hookRun.req_in

\* C19 witness: a LoggingMiddleware with both settings on gave back a 404
\* Response with a header and a body as it was.
C19_Witness ==
    /\ hookRun.ran
    /\ hookRun.mw = "Logging"
    /\ hookRun.hook = "after"
    /\ logging.log_bodies /\ logging.log_responses
    /\ hookRun.resp_in.status = 404
    /\ "x-a" \in DOMAIN hookRun.resp_in.headers
    /\ hookRun.resp_in.body.tag = "Text"
    /\ hookRun.out.resp = hookRun.resp_in

(***************************************************************************)
(* Claims about dia_init                                                   *)
(***************************************************************************)
\* C20: every call of dia_init returns a status code to its caller: the first
\* call in a process installs the logger and returns 0, and no call, a second
\* or later one included, aborts the process.
C20_InitReturns ==
    ffi.fn = "dia_init" => (~ffi.aborted /\ logger /\ ffi.ret = 0)

(***************************************************************************)
(* Claims about the default allow-list of AuthMiddleware                   *)
(***************************************************************************)
\* The allow-list AuthMiddleware::new installs.
DefaultPublicPaths == << <<"/", "h", "e", "a", "l", "t", "h">>, <<"/">> >>

\* The path begins with a slash.
BeginsWithSlash(path) == Len(path) > 0 /\ path[1] = "/"

====
